---- MODULE Spec2Model ----
(***************************************************************************)
(* Model of the Box 1 income tax hook of incomeTaxNL:                      *)
(*   frontend/src/features/tax-calculator/hooks/useBox1Calculator.js       *)
(*   frontend/src/features/tax-calculator/constants/box1Defaults.js        *)
(* The hook normalises the form inputs, calls the external SalaryPaycheck  *)
(* calculator and reshapes its result into a summary with a breakdown.     *)
(* JavaScript values are modelled as tagged records so that undefined,     *)
(* null, NaN, strings, booleans and numbers can meet in one comparison.    *)
(***************************************************************************)
EXTENDS Integers, Sequences, FiniteSets, TLC

VARIABLES
    inputs,       \* the `inputs` object the host passes on the current render
    year,         \* the `year` argument the host passes on the current render
    memo,         \* the useMemo cell of the hook instance: deps and cached value
    returned,     \* what the last call of useBox1Calculator gave its caller
    lastRender,   \* whether the instance's last render ran the derivation / the calculator
    extCall,      \* the SalaryPaycheck invocation of the last derivation run, if any
    conv          \* one application of convertToYearlyIncome

vars == <<inputs, year, memo, returned, lastRender, extCall, conv>>

----------------------------------------------------------------------------
(* JavaScript values *)

Undefined == [t |-> "undefined", n |-> 0, s |-> ""]
Null == [t |-> "null", n |-> 0, s |-> ""]
NaN == [t |-> "number", n |-> 0, s |-> "NaN"]
Num(k) == [t |-> "number", n |-> k, s |-> ""]
Str(x) == [t |-> "string", n |-> 0, s |-> x]
Bool(b) == [t |-> "boolean", n |-> IF b THEN 1 ELSE 0, s |-> ""]
\* a function object, such as the members every object inherits
Fn(name) == [t |-> "function", n |-> 0, s |-> name]
\* an Error instance carrying `message`
ErrorObj(msg) == [t |-> "error", n |-> 0, s |-> msg]
\* an object without a `message` property
PlainObj == [t |-> "object", n |-> 0, s |-> ""]

IsNaN(v) == v.t = "number" /\ v.s = "NaN"
IsNum(v) == v.t = "number" /\ v.s = ""

\* ToBoolean: undefined, null, false, 0, NaN and "" are falsy
Truthy(v) ==
    CASE v.t = "undefined" -> FALSE
      [] v.t = "null" -> FALSE
      [] v.t = "boolean" -> v.n = 1
      [] v.t = "number" -> ~IsNaN(v) /\ v.n # 0
      [] v.t = "string" -> v.s # ""
      [] OTHER -> TRUE

\* ToNumber, on the values the model draws (the only string with a numeric
\* value among them is the empty string)
ToNumber(v) ==
    CASE v.t = "number" -> v
      [] v.t = "null" -> Num(0)
      [] v.t = "boolean" -> Num(v.n)
      [] v.t = "string" -> IF v.s = "" THEN Num(0) ELSE NaN
      [] OTHER -> NaN

\* a * b
JsMul(a, b) ==
    LET x == ToNumber(a)
        y == ToNumber(b)
    IN IF IsNaN(x) \/ IsNaN(y) THEN NaN ELSE Num(x.n * y.n)

\* v <= 0 and v > 0: every comparison with NaN is false
JsLeZero(v) == LET x == ToNumber(v) IN ~IsNaN(x) /\ x.n <= 0
JsGtZero(v) == LET x == ToNumber(v) IN ~IsNaN(x) /\ x.n > 0

\* Math.abs(v)
MathAbs(v) ==
    LET x == ToNumber(v)
    IN IF IsNaN(x) THEN NaN ELSE Num(IF x.n < 0 THEN 0 - x.n ELSE x.n)

\* v ?? d
Nullish(v, d) == IF v.t \in {"undefined", "null"} THEN d ELSE v
\* v || d
OrElse(v, d) == IF Truthy(v) THEN v ELSE d
\* a destructuring or parameter default: only undefined takes the default
Default(v, d) == IF v.t = "undefined" THEN d ELSE v

\* the property key a value converts to
PropertyKey(v) == IF v.t = "string" THEN v.s ELSE v.t

\* members an object literal inherits from Object.prototype
ObjectPrototypeKeys == {"constructor", "toString", "valueOf", "hasOwnProperty"}

\* literal[key] for an object literal with the own properties `own`
ObjectLiteralGet(own, key) ==
    LET k == PropertyKey(key)
    IN IF k \in DOMAIN own THEN own[k]
       ELSE IF k \in ObjectPrototypeKeys THEN Fn(k)
       ELSE Undefined

\* error.message in the catch clause: "value" for a property that can be read,
\* "throws" for the TypeError reading a property of undefined or null raises
GetMessage(error) ==
    CASE error.t \in {"undefined", "null"} -> [kind |-> "throws", value |-> ErrorObj("TypeError")]
      [] error.t = "error" -> [kind |-> "value", value |-> Str(error.s)]
      [] OTHER -> [kind |-> "value", value |-> Undefined]

----------------------------------------------------------------------------
(* Constants of the source *)

WeeksPerYear == 52
DefaultHoursPerWeek == 40
DefaultYear == 2025

PERIOD_TO_START_FROM ==
    [p \in {"yearly", "monthly", "weekly", "daily", "hourly"} |->
        CASE p = "yearly" -> Str("Year")
          [] p = "monthly" -> Str("Month")
          [] p = "weekly" -> Str("Week")
          [] p = "daily" -> Str("Day")
          [] p = "hourly" -> Str("Hour")]

PERIOD_MULTIPLIERS ==
    [p \in {"yearly", "monthly", "weekly", "daily", "hourly"} |->
        CASE p = "yearly" -> Num(1)
          [] p = "monthly" -> Num(12)
          [] p = "weekly" -> Num(52)
          [] p = "daily" -> Num(260)
          [] p = "hourly" -> Null]

rulingChoiceMap ==
    [c \in {"researchWorker", "youngProfessional", "other"} |->
        CASE c = "researchWorker" -> Str("research")
          [] c = "youngProfessional" -> Str("young")
          [] c = "other" -> Str("normal")]

----------------------------------------------------------------------------
(* convertToYearlyIncome(income, period, hoursPerWeek) *)

\* mutant of convertToYearlyIncome: the hourly branch without the 52 weeks
convertToYearlyIncomeNoWeeks(income, period, hoursPerWeek) ==
    IF ~Truthy(income) \/ JsLeZero(income) THEN Num(0)
    ELSE LET multiplier == ObjectLiteralGet(PERIOD_MULTIPLIERS, period)
         IN IF multiplier = Null
            THEN JsMul(income, hoursPerWeek)
            ELSE JsMul(income, multiplier)

convertToYearlyIncome(income, period, hoursPerWeek) ==
    IF ~Truthy(income) \/ JsLeZero(income) THEN Num(0)
    ELSE LET multiplier == ObjectLiteralGet(PERIOD_MULTIPLIERS, period)
         IN IF multiplier = Null
            THEN JsMul(JsMul(income, hoursPerWeek), Num(WeeksPerYear))
            ELSE JsMul(income, multiplier)

----------------------------------------------------------------------------
(* useBox1Calculator(inputs, year) *)

\* the numeric properties read off the SalaryPaycheck instance, in source order
PaycheckFieldSeq ==
    <<"grossYear", "grossMonth", "grossWeek", "grossDay", "grossHour",
      "grossAllowance", "taxableYear", "taxFree", "payrollTax", "socialTax",
      "generalCredit", "labourCredit", "incomeTax", "incomeTaxMonth",
      "netYear", "netMonth", "netWeek", "netDay", "netHour", "netAllowance">>

PaycheckFields == {PaycheckFieldSeq[i] : i \in DOMAIN PaycheckFieldSeq}

InputKeys ==
    {"grossIncome", "period", "hoursPerWeek", "holidayAllowanceIncluded",
     "older", "ruling30Enabled", "ruling30Category", "socialSecurity"}

\* the destructuring of `inputs ?? {}` with its defaults, and the `year`
\* default; an absent `inputs` reads as every property undefined
Destructure(in, yr) ==
    [grossIncome |-> Default(in.grossIncome, Num(0)),
     period |-> Default(in.period, Str("yearly")),
     hoursPerWeek |-> Default(in.hoursPerWeek, Num(DefaultHoursPerWeek)),
     holidayAllowanceIncluded |-> Default(in.holidayAllowanceIncluded, Bool(TRUE)),
     older |-> Default(in.older, Bool(FALSE)),
     ruling30Enabled |-> Default(in.ruling30Enabled, Bool(FALSE)),
     ruling30Category |-> Default(in.ruling30Category, Str("other")),
     socialSecurity |-> Default(in.socialSecurity, Bool(TRUE)),
     year |-> Default(yr, Num(DefaultYear))]

\* mutant of MemoDeps: the dependency array without `year`
MemoDepsWithoutYear(v) ==
    <<v.grossIncome, v.period, v.hoursPerWeek, v.holidayAllowanceIncluded,
      v.older, v.ruling30Enabled, v.ruling30Category, v.socialSecurity>>

\* the dependency array of useMemo
MemoDeps(v) ==
    <<v.grossIncome, v.period, v.hoursPerWeek, v.holidayAllowanceIncluded,
      v.older, v.ruling30Enabled, v.ruling30Category, v.socialSecurity, v.year>>

\* mutant of NoIncome: the guard without its `grossIncome <= 0` half
NoIncomeFalsyOnly(v) == ~Truthy(v.grossIncome)

\* the guard of the empty summary: !grossIncome || grossIncome <= 0
NoIncome(v) == ~Truthy(v.grossIncome) \/ JsLeZero(v.grossIncome)

EmptySummary ==
    [taxableBase |-> Num(0), estimatedTax |-> Num(0), netIncome |-> Num(0),
     breakdown |-> <<>>, details |-> Null, hasError |-> FALSE, error |-> Undefined]

startFrom(v) == OrElse(ObjectLiteralGet(PERIOD_TO_START_FROM, v.period), Str("Year"))

rulingChoice(v) == OrElse(ObjectLiteralGet(rulingChoiceMap, v.ruling30Category), Str("normal"))

\* the arguments of new SalaryPaycheck(...)
PaycheckArgs(v) ==
    [income |-> ToNumber(v.grossIncome),
     allowance |-> v.holidayAllowanceIncluded,
     socialSecurity |-> v.socialSecurity,
     older |-> v.older,
     hours |-> v.hoursPerWeek,
     startFrom |-> startFrom(v),
     year |-> v.year,
     checked |-> v.ruling30Enabled,
     choice |-> rulingChoice(v)]

DetailKeys == {"inputIncome", "inputPeriod", "yearlyInputIncome"} \union PaycheckFields

\* mutant of Details: netMonth read off the netWeek property
DetailsNetMonthFromNetWeek(v, paycheck) ==
    [k \in DetailKeys |->
        CASE k = "inputIncome" -> ToNumber(v.grossIncome)
          [] k = "inputPeriod" -> v.period
          [] k = "yearlyInputIncome" ->
                convertToYearlyIncome(ToNumber(v.grossIncome), v.period, v.hoursPerWeek)
          [] k = "netMonth" -> Nullish(paycheck["netWeek"], Num(0))
          [] OTHER -> Nullish(paycheck[k], Num(0))]

\* the `details` object: three figures of the hook's own, then one per
\* paycheck property, each defaulted on its own with ?? 0
Details(v, paycheck) ==
    [k \in DetailKeys |->
        CASE k = "inputIncome" -> ToNumber(v.grossIncome)
          [] k = "inputPeriod" -> v.period
          [] k = "yearlyInputIncome" ->
                convertToYearlyIncome(ToNumber(v.grossIncome), v.period, v.hoursPerWeek)
          [] OTHER -> Nullish(paycheck[k], Num(0))]

Row(description, amount) == [description |-> description, amount |-> amount]

HolidayAllowanceRow(details) ==
    IF JsGtZero(details["grossAllowance"])
    THEN <<Row("Holiday allowance (8%)", details["grossAllowance"])>>
    ELSE <<>>

\* mutant of RulingRow: the row shown for any non-zero amount
RulingRowIfNonZero(details) ==
    IF Truthy(details["taxFree"])
    THEN <<Row("30% ruling tax-free amount", details["taxFree"])>>
    ELSE <<>>

RulingRow(details) ==
    IF JsGtZero(details["taxFree"])
    THEN <<Row("30% ruling tax-free amount", details["taxFree"])>>
    ELSE <<>>

\* mutant of SocialSecurityRow: the row decided by the amount, not the flag
SocialSecurityRowByAmount(v, details) ==
    IF JsGtZero(details["socialTax"])
    THEN <<Row("Social security contributions", details["socialTax"])>>
    ELSE <<>>

SocialSecurityRow(v, details) ==
    IF Truthy(v.socialSecurity)
    THEN <<Row("Social security contributions", details["socialTax"])>>
    ELSE <<>>

\* mutant of Breakdown: the social security row placed after the tax credits
BreakdownSocialAfterCredits(v, details) ==
    <<Row("Gross annual income", details["grossYear"])>>
    \o HolidayAllowanceRow(details)
    \o RulingRow(details)
    \o <<Row("Taxable income", details["taxableYear"]),
         Row("Payroll tax", details["payrollTax"]),
         Row("General tax credit", details["generalCredit"]),
         Row("Labour tax credit", details["labourCredit"])>>
    \o SocialSecurityRow(v, details)
    \o <<Row("Total income tax", details["incomeTax"]),
         Row("Net annual income", details["netYear"])>>

Breakdown(v, details) ==
    <<Row("Gross annual income", details["grossYear"])>>
    \o HolidayAllowanceRow(details)
    \o RulingRow(details)
    \o <<Row("Taxable income", details["taxableYear"]),
         Row("Payroll tax", details["payrollTax"])>>
    \o SocialSecurityRow(v, details)
    \o <<Row("General tax credit", details["generalCredit"]),
         Row("Labour tax credit", details["labourCredit"]),
         Row("Total income tax", details["incomeTax"]),
         Row("Net annual income", details["netYear"])>>

\* mutant of EstimatedTax: the signed income tax, without Math.abs
EstimatedTaxSigned(details) == details["incomeTax"]

EstimatedTax(details) == MathAbs(details["incomeTax"])

\* the summary of the try block
SuccessSummary(v, paycheck) ==
    LET details == Details(v, paycheck)
    IN [taxableBase |-> details["taxableYear"],
        estimatedTax |-> EstimatedTax(details),
        netIncome |-> details["netYear"],
        breakdown |-> Breakdown(v, details),
        details |-> details,
        hasError |-> FALSE,
        error |-> Undefined]

Completed(summary) == [kind |-> "summary", value |-> summary]
Escaped(thrown) == [kind |-> "escaped", thrown |-> thrown]

\* the catch clause: the error summary, unless reading error.message throws
CatchClause(error) ==
    LET m == GetMessage(error)
    IN IF m.kind = "throws" THEN Escaped(m.value)
       ELSE Completed([EmptySummary EXCEPT !.hasError = TRUE, !.error = m.value])

\* the useMemo callback on the post-default values v, given what the
\* SalaryPaycheck constructor does when it is called
Derivation(v, outcome) ==
    IF NoIncome(v) THEN Completed(EmptySummary)
    ELSE IF outcome.kind = "return" THEN Completed(SuccessSummary(v, outcome.paycheck))
    ELSE CatchClause(outcome.value)

----------------------------------------------------------------------------
(* One render of the hook *)

Unmounted == [mounted |-> FALSE, deps |-> <<>>, value |-> EmptySummary]
NotRendered == [kind |-> "none"]
NoCall == [args |-> Undefined, outcome |-> [kind |-> "none"]]
ConvIdle == [income |-> Undefined, period |-> Undefined, hoursPerWeek |-> Undefined,
             result |-> Undefined, done |-> FALSE]

\* useBox1Calculator(in, yr) on the hook instance whose useMemo cell is `memo`;
\* `outcomes` is what the SalaryPaycheck constructor may do if it is called.
\* useMemo runs the callback on the first render and whenever a dependency
\* differs from the stored one (Object.is, which on the primitive values drawn
\* here is equality), and otherwise returns the stored value.  An
\* exception that leaves the hook aborts the render and the instance is
\* discarded with its cell.
Render(in, yr, outcomes) ==
    LET v == Destructure(in, yr)
        deps == MemoDeps(v)
        hit == memo.mounted /\ memo.deps = deps
    IN /\ inputs' = in
       /\ year' = yr
       /\ IF hit
          THEN /\ returned' = Completed(memo.value)
               /\ memo' = memo
               /\ lastRender' = [ran |-> FALSE, called |-> FALSE]
               /\ extCall' = extCall
          ELSE \E o \in (IF NoIncome(v) THEN {NoCall.outcome} ELSE outcomes) :
               LET r == Derivation(v, o)
               IN /\ returned' = r
                  /\ memo' = IF r.kind = "summary"
                             THEN [mounted |-> TRUE, deps |-> deps, value |-> r.value]
                             ELSE Unmounted
                  /\ lastRender' = [ran |-> TRUE, called |-> ~NoIncome(v)]
                  /\ extCall' = IF NoIncome(v) THEN NoCall
                                ELSE [args |-> PaycheckArgs(v), outcome |-> o]
       /\ UNCHANGED conv

----------------------------------------------------------------------------
(* What the SalaryPaycheck constructor can do: it is an external package,   *)
(* so a call either returns an instance carrying numeric properties or      *)
(* raises some value.                                                       *)

\* a distinct positive figure per property, so that no two can be confused
FieldFigure(f) == 100 + (CHOOSE i \in DOMAIN PaycheckFieldSeq : PaycheckFieldSeq[i] = f)

Amounts == {-1, 0, 1}

\* an instance with every property present; the three figures whose sign the
\* hook looks at are drawn freely
Paycheck(allowance, taxFree, incomeTax) ==
    [f \in PaycheckFields |->
        CASE f = "grossAllowance" -> Num(allowance)
          [] f = "taxFree" -> Num(taxFree)
          [] f = "incomeTax" -> Num(incomeTax)
          [] OTHER -> Num(FieldFigure(f))]

Returns(paycheck) == [kind |-> "return", paycheck |-> paycheck]
Throws(value) == [kind |-> "throw", value |-> value]

ThrownValues == {ErrorObj("boom"), Str("boom"), PlainObj, Null, Undefined}

Outcomes ==
    {Returns(Paycheck(a, t, i)) : <<a, t, i>> \in Amounts \X Amounts \X Amounts}
    \union {Throws(e) : e \in ThrownValues}

----------------------------------------------------------------------------
(* Spec: the first render of a hook instance for any inputs, and re-renders *)
(* with the same inputs                                                     *)

MaxIncome == 1

Flags == {Bool(TRUE), Bool(FALSE)}
GrossIncomes == {Undefined, Null, Str("")} \union {Num(k) : k \in -1..MaxIncome}
Periods ==
    {Undefined, Str("yearly"), Str("monthly"), Str("weekly"), Str("daily"),
     Str("hourly"), Str("fortnightly"), Str("constructor")}
HoursPerWeek == {Undefined, Num(36)}
Categories ==
    {Undefined, Str("researchWorker"), Str("youngProfessional"), Str("other"),
     Str("unknown"), Str("constructor")}
Years == {Undefined, Num(2024)}

InputSpace ==
    [grossIncome : GrossIncomes, period : Periods, hoursPerWeek : HoursPerWeek,
     holidayAllowanceIncluded : Flags, older : Flags, ruling30Enabled : Flags,
     ruling30Category : Categories, socialSecurity : Flags \union {Undefined}]

Init ==
    /\ inputs \in InputSpace
    /\ year \in Years
    /\ memo = Unmounted
    /\ returned = NotRendered
    /\ lastRender = [ran |-> FALSE, called |-> FALSE]
    /\ extCall = NoCall
    /\ conv = ConvIdle

FirstRender == ~memo.mounted /\ Render(inputs, year, Outcomes)

Rerender == memo.mounted /\ Render(inputs, year, Outcomes)

Next == FirstRender \/ Rerender

Spec == Init /\ [][Next]_vars

----------------------------------------------------------------------------
(* SpecConv: convertToYearlyIncome applied to any income, period and hours  *)

MaxConvIncome == 3
MaxConvHours == 3

ConvIncomes == {Undefined, NaN} \union {Num(k) : k \in -2..MaxConvIncome}
ConvHours == {Num(k) : k \in 0..MaxConvHours} \union {Num(DefaultHoursPerWeek)}

ConvInit ==
    /\ conv \in [income : ConvIncomes, period : Periods \ {Undefined},
                 hoursPerWeek : ConvHours, result : {Undefined}, done : {FALSE}]
    /\ inputs = [k \in InputKeys |-> Undefined]
    /\ year = Undefined
    /\ memo = Unmounted
    /\ returned = NotRendered
    /\ lastRender = [ran |-> FALSE, called |-> FALSE]
    /\ extCall = NoCall

Convert ==
    /\ ~conv.done
    /\ conv' = [conv EXCEPT
                  !.result = convertToYearlyIncome(conv.income, conv.period, conv.hoursPerWeek),
                  !.done = TRUE]
    /\ UNCHANGED <<inputs, year, memo, returned, lastRender, extCall>>

ConvNext == Convert

SpecConv == ConvInit /\ [][ConvNext]_vars

----------------------------------------------------------------------------
(* SpecMemo: a sequence of renders of one component, the host changing one  *)
(* input or the year between renders                                        *)

MemoValues ==
    [k \in InputKeys |->
        CASE k = "grossIncome" -> {Undefined, Num(0), Num(1), Num(2)}
          [] k = "period" -> {Str("yearly"), Str("hourly")}
          [] k = "hoursPerWeek" -> {Num(36), Num(DefaultHoursPerWeek)}
          [] k = "ruling30Category" -> {Str("other"), Str("unknown")}
          [] OTHER -> Flags]

MemoOutcomes ==
    {Returns(Paycheck(1, 0, 1)), Returns(Paycheck(0, 1, -1)),
     Throws(ErrorObj("boom")), Throws(Null)}

MemoInit ==
    /\ inputs \in [grossIncome : MemoValues["grossIncome"], period : MemoValues["period"],
                   hoursPerWeek : MemoValues["hoursPerWeek"],
                   holidayAllowanceIncluded : Flags, older : Flags, ruling30Enabled : Flags,
                   ruling30Category : MemoValues["ruling30Category"], socialSecurity : Flags]
    /\ year \in Years
    /\ memo = Unmounted
    /\ returned = NotRendered
    /\ lastRender = [ran |-> FALSE, called |-> FALSE]
    /\ extCall = NoCall
    /\ conv = ConvIdle

\* the host renders again, with at most one input given a new value
ChangeInput ==
    \E k \in InputKeys : \E val \in MemoValues[k] :
        Render([inputs EXCEPT ![k] = val], year, MemoOutcomes)

\* the host renders again with another year
ChangeYear == \E yr \in Years : Render(inputs, yr, MemoOutcomes)

\* the component leaves the tree; its next render starts a new instance
Unmount ==
    /\ memo.mounted
    /\ memo' = Unmounted
    /\ lastRender' = [ran |-> FALSE, called |-> FALSE]
    /\ UNCHANGED <<inputs, year, returned, extCall, conv>>

MemoNext == ChangeInput \/ ChangeYear \/ Unmount

SpecMemo == MemoInit /\ [][MemoNext]_vars

----------------------------------------------------------------------------
(* SpecFields: the constructor returns an instance on which some of the     *)
(* properties are absent, undefined or null                                 *)

MaxMissing == 2

RECURSIVE SubsetsUpTo(_)
SubsetsUpTo(n) ==
    IF n = 0 THEN {{}}
    ELSE LET smaller == SubsetsUpTo(n - 1)
         IN smaller \union {m \union {f} : m \in smaller, f \in PaycheckFields}

\* few properties missing, or few properties present
MissingSets ==
    SubsetsUpTo(MaxMissing) \union {PaycheckFields \ m : m \in SubsetsUpTo(MaxMissing)}

PartialPaycheck(missing, as) ==
    [f \in PaycheckFields |-> IF f \in missing THEN as ELSE Paycheck(1, 1, -1)[f]]

PartialOutcomes ==
    {Returns(PartialPaycheck(m, as)) : m \in MissingSets, as \in {Undefined, Null}}

FieldsInit ==
    /\ inputs \in [grossIncome : {Num(k) : k \in 1..MaxIncome}, period : {Undefined},
                   hoursPerWeek : {Undefined}, holidayAllowanceIncluded : {Undefined},
                   older : {Undefined}, ruling30Enabled : {Undefined},
                   ruling30Category : {Undefined}, socialSecurity : Flags]
    /\ year = Undefined
    /\ memo = Unmounted
    /\ returned = NotRendered
    /\ lastRender = [ran |-> FALSE, called |-> FALSE]
    /\ extCall = NoCall
    /\ conv = ConvIdle

FirstRenderPartial == ~memo.mounted /\ Render(inputs, year, PartialOutcomes)

FieldsNext == FirstRenderPartial \/ Rerender

SpecFields == FieldsInit /\ [][FieldsNext]_vars

----------------------------------------------------------------------------
(* Vocabulary of the properties *)

\* the values the hook works on in the current render, after the defaults
V == Destructure(inputs, year)

Rendered == returned.kind # "none"
HasSummary == returned.kind = "summary"
\* a successful result: a summary that carries details
Successful == HasSummary /\ returned.value.details # Null
\* the last derivation called the calculator and the call ended this way
CallEnded(kind) == extCall # NoCall /\ extCall.outcome.kind = kind

Descriptions(bd) == [i \in DOMAIN bd |-> bd[i].description]
HasRow(bd, d) == \E i \in DOMAIN bd : bd[i].description = d
RowAmount(bd, d) == bd[CHOOSE i \in DOMAIN bd : bd[i].description = d].amount

FivePeriods == {"yearly", "monthly", "weekly", "daily", "hourly"}

----------------------------------------------------------------------------
(* C1 *)

\* C1: whenever the SalaryPaycheck call raises, whatever value is raised, the
\* hook returns the empty summary with a non-null error string attached and
\* no exception escapes to the caller.
C1_ErrorAbsorbed ==
    (lastRender.called /\ CallEnded("throw")) =>
        /\ returned.kind = "summary"
        /\ returned.value.hasError
        /\ returned.value.error.t = "string"
        /\ returned.value = [EmptySummary EXCEPT !.hasError = TRUE,
                                                 !.error = returned.value.error]

----------------------------------------------------------------------------
(* C2 *)

\* the claim's cases: grossIncome missing, zero or negative
IncomeMissingZeroOrNegative ==
    \/ inputs.grossIncome = Undefined
    \/ IsNum(inputs.grossIncome) /\ inputs.grossIncome.n <= 0

\* C2: for every input whose grossIncome is zero, negative or missing, whatever
\* the period, hours, flags and year, the hook returns the fixed empty summary
\* without an error field and the SalaryPaycheck constructor is never invoked.
C2_NoIncomeEmptyNoCall ==
    (Rendered /\ IncomeMissingZeroOrNegative) =>
        /\ returned = Completed(EmptySummary)
        /\ ~returned.value.hasError
        /\ ~lastRender.called
        /\ extCall = NoCall

C2_Witness ==
    /\ Rendered
    /\ inputs.grossIncome = Num(-1)
    /\ inputs.period = Str("hourly")
    /\ inputs.socialSecurity = Bool(FALSE)
    /\ returned = Completed(EmptySummary)
    /\ extCall = NoCall

----------------------------------------------------------------------------
(* C3 *)

\* the reference of the claim, on numbers
ReferenceYearly(income, period, hours) ==
    IF income <= 0 THEN 0
    ELSE CASE period = "yearly" -> income * 1
           [] period = "monthly" -> income * 12
           [] period = "weekly" -> income * 52
           [] period = "daily" -> income * 260
           [] period = "hourly" -> income * hours * 52

\* C3: for every numeric income, every period among yearly, monthly, weekly,
\* daily and hourly, and every hoursPerWeek, convertToYearlyIncome returns a
\* number: 0 for an income that is zero or negative, otherwise the income times
\* 1, 12, 52, 260, or times hoursPerWeek times 52 for hourly.
C3_ConvMatchesReference ==
    (conv.done /\ IsNum(conv.income) /\ conv.period.s \in FivePeriods) =>
        conv.result = Num(ReferenceYearly(conv.income.n, conv.period.s, conv.hoursPerWeek.n))

C3_Witness ==
    /\ conv.done
    /\ conv.income = Num(2)
    /\ conv.period = Str("hourly")
    /\ conv.hoursPerWeek = Num(3)
    /\ conv.result = Num(312)

----------------------------------------------------------------------------
(* C4 *)

\* C4: in every successful result the breakdown has the holiday allowance row
\* exactly when details.grossAllowance > 0, whatever holidayAllowanceIncluded
\* is, and has the 'Social security contributions' row exactly when the
\* socialSecurity flag (true when omitted) is true, whatever socialTax is.
C4_ConditionalRows ==
    Successful =>
        LET s == returned.value
        IN /\ HasRow(s.breakdown, "Holiday allowance (8%)")
                <=> (IsNum(s.details["grossAllowance"]) /\ s.details["grossAllowance"].n > 0)
           /\ HasRow(s.breakdown, "Social security contributions")
                <=> (inputs.socialSecurity \in {Bool(TRUE), Undefined})

C4_Witness ==
    /\ Successful
    /\ inputs.holidayAllowanceIncluded = Bool(FALSE)
    /\ returned.value.details["grossAllowance"] = Num(1)
    /\ HasRow(returned.value.breakdown, "Holiday allowance (8%)")
    /\ inputs.socialSecurity = Bool(FALSE)
    /\ returned.value.details["socialTax"].n > 0
    /\ ~HasRow(returned.value.breakdown, "Social security contributions")

----------------------------------------------------------------------------
(* C5 *)

\* the details that are read off the instance the constructor returned
DetailsReadOffPaycheck ==
    {k \in DOMAIN returned.value.details : k \in DOMAIN extCall.outcome.paycheck}

\* a successful summary: details, no error field, a breakdown with rows
PopulatedSummary ==
    /\ Successful
    /\ ~returned.value.hasError
    /\ returned.value.breakdown # <<>>

\* C5 as claimed: the instance has 21 numeric fields; whichever of them are
\* absent or undefined, the summary is successful, the detail of each such
\* field is 0 and the detail of every other field is the value supplied.
C5_AsClaimed ==
    CallEnded("return") =>
        /\ PopulatedSummary
        /\ Cardinality(DetailsReadOffPaycheck) = 21
        /\ \A f \in DetailsReadOffPaycheck :
              returned.value.details[f] =
                 IF extCall.outcome.paycheck[f] = Undefined THEN Num(0)
                 ELSE extCall.outcome.paycheck[f]

\* C5 amended: the instance has 20 numeric fields; whichever of them are
\* absent, undefined or null, the summary is successful (details non-null, no
\* error field, breakdown non-empty), the detail of each such field is 0 and
\* the detail of every other field is the value the instance supplied.
C5_MissingFieldsDefaultToZero ==
    CallEnded("return") =>
        /\ PopulatedSummary
        /\ Cardinality(DetailsReadOffPaycheck) = 20
        /\ \A f \in DetailsReadOffPaycheck :
              returned.value.details[f] =
                 IF extCall.outcome.paycheck[f] \in {Undefined, Null} THEN Num(0)
                 ELSE extCall.outcome.paycheck[f]

C5_Witness ==
    /\ CallEnded("return")
    /\ extCall.outcome.paycheck["grossAllowance"] = Undefined
    /\ extCall.outcome.paycheck["netMonth"] = Undefined
    /\ extCall.outcome.paycheck["netYear"] = Num(115)
    /\ PopulatedSummary
    /\ returned.value.details["grossAllowance"] = Num(0)
    /\ returned.value.details["netMonth"] = Num(0)
    /\ returned.value.details["netYear"] = Num(115)

----------------------------------------------------------------------------
(* C6 *)

ConditionalRows ==
    {"Holiday allowance", "Holiday allowance (8%)", "30% ruling tax-free amount",
     "Social security contributions"}

\* `order` with the conditional rows that `bd` lacks removed
OrderWithout(order, bd) ==
    LET Kept(d) == d \notin ConditionalRows \/ HasRow(bd, d)
    IN SelectSeq(order, Kept)

FirstAndLastRows(s) ==
    /\ s.breakdown[1] = Row("Gross annual income", s.details["grossYear"])
    /\ s.breakdown[Len(s.breakdown)] = Row("Net annual income", s.details["netYear"])

ClaimedRowOrder ==
    <<"Gross annual income", "Holiday allowance", "30% ruling tax-free amount",
      "Taxable income", "Payroll tax", "Social security contributions",
      "General tax credit", "Labour tax credit", "Total income tax",
      "Net annual income">>

SourceRowOrder ==
    <<"Gross annual income", "Holiday allowance (8%)", "30% ruling tax-free amount",
      "Taxable income", "Payroll tax", "Social security contributions",
      "General tax credit", "Labour tax credit", "Total income tax",
      "Net annual income">>

\* C6 as claimed: the breakdown is the sequence Gross annual income, Holiday
\* allowance, 30% ruling tax-free amount, Taxable income, Payroll tax, Social
\* security contributions, General tax credit, Labour tax credit, Total income
\* tax, Net annual income, with only conditional rows possibly removed.
C6_AsClaimed ==
    Successful =>
        /\ Descriptions(returned.value.breakdown)
              = OrderWithout(ClaimedRowOrder, returned.value.breakdown)
        /\ FirstAndLastRows(returned.value)

\* C6 amended: the same, the second row being described 'Holiday allowance
\* (8%)': the seven unconditional rows are always present in that order, the
\* first row is 'Gross annual income' with details.grossYear and the last is
\* 'Net annual income' with details.netYear.
C6_FixedRowOrder ==
    Successful =>
        /\ Descriptions(returned.value.breakdown)
              = OrderWithout(SourceRowOrder, returned.value.breakdown)
        /\ Len(OrderWithout(SourceRowOrder, returned.value.breakdown)) >= 7
        /\ FirstAndLastRows(returned.value)

C6_Witness ==
    /\ Successful
    /\ Len(returned.value.breakdown) = 10
    /\ Descriptions(returned.value.breakdown) = SourceRowOrder
    /\ returned.value.breakdown[1].amount = Num(101)

----------------------------------------------------------------------------
(* C7 *)

\* C7 as claimed: with ruling30Enabled false the '30% ruling tax-free amount'
\* row is absent, whatever the calculator returned.
C7_AsClaimed ==
    (Successful /\ V.ruling30Enabled = Bool(FALSE)) =>
        ~HasRow(returned.value.breakdown, "30% ruling tax-free amount")

\* C7 amended: the '30% ruling tax-free amount' row is present exactly when
\* details.taxFree > 0, whatever the ruling30Enabled input is; its amount is
\* details.taxFree.
C7_RulingRowFollowsTaxFree ==
    Successful =>
        LET s == returned.value
        IN /\ HasRow(s.breakdown, "30% ruling tax-free amount")
                <=> (IsNum(s.details["taxFree"]) /\ s.details["taxFree"].n > 0)
           /\ HasRow(s.breakdown, "30% ruling tax-free amount")
                => RowAmount(s.breakdown, "30% ruling tax-free amount") = s.details["taxFree"]

C7_Witness ==
    /\ Successful
    /\ inputs.ruling30Enabled = Bool(FALSE)
    /\ extCall.args.checked = Bool(FALSE)
    /\ returned.value.details["taxFree"] = Num(1)
    /\ HasRow(returned.value.breakdown, "30% ruling tax-free amount")

----------------------------------------------------------------------------
(* C8 *)

ExpectedStartFrom(period) ==
    CASE period = Str("yearly") -> Str("Year")
      [] period = Str("monthly") -> Str("Month")
      [] period = Str("weekly") -> Str("Week")
      [] period = Str("daily") -> Str("Day")
      [] period = Str("hourly") -> Str("Hour")
      [] OTHER -> Str("Year")

ExpectedChoice(category) ==
    CASE category = Str("researchWorker") -> Str("research")
      [] category = Str("youngProfessional") -> Str("young")
      [] OTHER -> Str("normal")

\* C8: whenever the hook invokes the calculator, the period selector is
\* Year/Month/Week/Day/Hour for yearly/monthly/weekly/daily/hourly and 'Year'
\* for any other period value, and the ruling choice is research/young/normal
\* for researchWorker/youngProfessional/other and 'normal' for any other
\* category value.
C8_SelectorsInVocabulary ==
    extCall # NoCall =>
        /\ extCall.args.startFrom = ExpectedStartFrom(V.period)
        /\ extCall.args.choice = ExpectedChoice(V.ruling30Category)

----------------------------------------------------------------------------
(* C9 *)

\* the summary in hand is the one a derivation from the current inputs gives:
\* it comes from a calculator call with the arguments these inputs map to, or,
\* for inputs without income, it is the empty summary
Fresh ==
    IF NoIncome(V) THEN returned.value = EmptySummary
    ELSE /\ extCall # NoCall
         /\ extCall.args = PaycheckArgs(V)
         /\ Completed(returned.value) = Derivation(V, extCall.outcome)

\* C9: over any sequence of renders of one instance, the derivation re-runs on
\* a render only if one of grossIncome, period, hoursPerWeek,
\* holidayAllowanceIncluded, older, ruling30Enabled, ruling30Category,
\* socialSecurity, year differs from the previous render, and the summary a
\* render returns is the one a fresh derivation from its inputs gives.
C9_RerunOnlyOnChangeNeverStale ==
    [][/\ (memo.mounted /\ lastRender'.ran)
            => Destructure(inputs', year') # Destructure(inputs, year)
       /\ returned'.kind = "summary" => Fresh']_vars

\* a render answered from the cell: nothing changed, nothing re-ran
C9_Witness ==
    /\ memo.mounted
    /\ ~lastRender.ran
    /\ Successful
    /\ V.year = Num(2024)
    /\ extCall.args.year = Num(2024)
    /\ returned.value = memo.value

----------------------------------------------------------------------------
(* C10 *)

Abs(k) == IF k < 0 THEN 0 - k ELSE k

\* C10: in every summary returned estimatedTax is non-negative: in a
\* successful result it is the absolute value of details.incomeTax while the
\* 'Total income tax' row carries the signed details.incomeTax, taxableBase is
\* details.taxableYear and netIncome is details.netYear; in the empty and
\* error results all three are 0.
C10_EstimatedTaxNonNegative ==
    HasSummary =>
        LET s == returned.value
        IN /\ IsNum(s.estimatedTax) /\ s.estimatedTax.n >= 0
           /\ IF s.details # Null
              THEN /\ s.estimatedTax = Num(Abs(s.details["incomeTax"].n))
                   /\ RowAmount(s.breakdown, "Total income tax") = s.details["incomeTax"]
                   /\ s.taxableBase = s.details["taxableYear"]
                   /\ s.netIncome = s.details["netYear"]
              ELSE /\ s.taxableBase = Num(0)
                   /\ s.estimatedTax = Num(0)
                   /\ s.netIncome = Num(0)

C10_Witness ==
    /\ Successful
    /\ returned.value.details["incomeTax"] = Num(-1)
    /\ returned.value.estimatedTax = Num(1)
    /\ RowAmount(returned.value.breakdown, "Total income tax") = Num(-1)

====
